---- MODULE Spec2Model ----
(***************************************************************************)
(* k8s-causal-memory: the ingestion / causal-linking engine of            *)
(* storage/ingest.py and the read model of storage/query.py and           *)
(* storage/api.py, as a state machine over the three SQLite tables.       *)
(*                                                                         *)
(* Tables are modelled with their rows: events is the sequence of rows in *)
(* rowid (insertion) order, causal_edges is a bag of rows, so that a row  *)
(* inserted twice would show.  schema.sql is not part of the sources; the *)
(* two PRIMARY KEY constraints the code relies on are stated by           *)
(* EventKeyConflict and EdgeKeyConflict.                                  *)
(*                                                                         *)
(* Timestamps are TEXT columns.  A text is the triple                     *)
(* <<date, separator, time of day>>; SQLite compares texts byte by byte,  *)
(* which is the lexicographic order TextLeq.                              *)
(***************************************************************************)
EXTENDS Integers, Sequences, FiniteSets, Bags, TLC

VARIABLES
    events,     \* rows of table events, in rowid order (the writer's view)
    edges,      \* rows of table causal_edges, a bag
    snaps,      \* rows of table snapshots, in rowid order
    tieOrder,   \* order in which a query plan yields equal timestamps
    response,   \* the answer to the last query
    mode,       \* how ingest.py was started: "batch" or "watch"
    pc,         \* "run", "done" (batch finished), "aborted" (uncaught error)
    evBytes,    \* content of events.jsonl
    epos,       \* watch mode: offset into events.jsonl already read
    cursor,     \* batch mode: lines of events.jsonl already iterated
    durable,    \* the tables as of the last commit (what other connections read)
    evExists,   \* events.jsonl exists
    snExists,   \* snapshots.jsonl exists
    snBytes,    \* content of snapshots.jsonl
    spos,       \* watch mode: offset into snapshots.jsonl already read
    processed   \* names of the event lines handed to _insert_event, in order

storeVars == <<events, edges, snaps>>
pipeVars == <<mode, pc, evBytes, epos, cursor, durable, evExists, snExists,
              snBytes, spos, processed>>
vars == <<events, edges, snaps, tieOrder, response, mode, pc, evBytes, epos,
          cursor, durable, evExists, snExists, snBytes, spos, processed>>

(* ------------------------------------------------------------------ *)
(* Bounds and program constants                                        *)
(* ------------------------------------------------------------------ *)

\* number of distinct event ids the producer uses
MaxId == 3
\* number of distinct event ids in the runs that fill the cap of the
\* memory-pressure rule (LimitP001 causes, one more, and their effect)
MaxCapId == 5
\* number of distinct event ids of a producer that also reuses stored ids
\* with other field values
MaxMainId == 2
\* number of distinct event ids in the runs that resolve a Q1 anchor
MaxAnchorId == 2
\* number of lines the collector writes, to events.jsonl and
\* snapshots.jsonl together
MaxLines == 2
\* number of distinct snapshot ids in the runs that answer Q3
MaxStateId == 2
\* number of distinct event ids in the runs that answer Q2
MaxHistoryId == 3
\* number of distinct snapshot ids the producer uses
MaxSnapId == 1

\* '-300 seconds'  (memory-pressure rule)
WindowP001 == 300
\* LIMIT 3
LimitP001 == 3
\* '-90 seconds'   (OOM-evidence rule)
WindowEvidence == 90
\* LIMIT 1
LimitEvidence == 1
\* _walk_chain(conn, dict(anchor), 0, 5)
MaxDepth == 5

SecondsPerDay == 24 * 60 * 60

\* Instants (seconds since the start of day 0) the producer stamps records
\* with: late on day 0, and 200 s and 600 s later on day 1.
Times == {86300, 86500, 86900}

(* ------------------------------------------------------------------ *)
(* Timestamp texts                                                     *)
(* ------------------------------------------------------------------ *)

\* The collector's RFC 3339 form, "2026-01-10T23:19:42Z".
IsoText(t) == <<t \div SecondsPerDay, "T", t % SecondsPerDay>>

\* The instant a text denotes (what SQLite's date parser reads from it).
Instant(text) == text[1] * SecondsPerDay + text[3]

\* SQLite datetime(text, '<delta> seconds'): always rendered as
\* "YYYY-MM-DD HH:MM:SS", with a space between date and time.
SqlDatetime(text, delta) ==
    LET t == Instant(text) + delta
    IN  <<t \div SecondsPerDay, " ", t % SecondsPerDay>>

\* Byte value of the separator character.
CharCode(c) == IF c = " " THEN 32 ELSE 84

\* Byte-wise (BINARY collation) comparison of two timestamp texts.
TextLess(a, b) ==
    \/ a[1] < b[1]
    \/ /\ a[1] = b[1]
       /\ \/ CharCode(a[2]) < CharCode(b[2])
          \/ a[2] = b[2] /\ a[3] < b[3]

TextLeq(a, b) == a = b \/ TextLess(a, b)

(* ------------------------------------------------------------------ *)
(* Tables                                                              *)
(* ------------------------------------------------------------------ *)

\* events.id is the table's PRIMARY KEY: a row with this id is present.
EventKeyConflict(evs, id) == \E i \in 1..Len(evs) : evs[i].id = id

\* causal_edges.id is the table's PRIMARY KEY: a row with this id is present.
EdgeKeyConflict(eds, eid) == \E x \in BagToSet(eds) : x.id = eid

\* The column values _insert_event binds from a parsed record.
EventRow(e) ==
    [id |-> e.id, timestamp |-> e.timestamp, event_type |-> e.event_type,
     pattern_id |-> e.pattern_id, pod_name |-> e.pod_name,
     namespace |-> e.namespace, node_name |-> e.node_name]

\* A plausible slip: plain INSERT semantics that replace the stored row.
InsertEventReplace(evs, e) ==
    IF EventKeyConflict(evs, e.id)
    THEN [i \in 1..Len(evs) |-> IF evs[i].id = e.id THEN EventRow(e) ELSE evs[i]]
    ELSE Append(evs, EventRow(e))

\* _insert_event: INSERT OR IGNORE INTO events.
InsertEvent(evs, e) ==
    IF EventKeyConflict(evs, e.id) THEN evs ELSE Append(evs, EventRow(e))

\* snapshots.id is the table's PRIMARY KEY: a row with this id is present.
SnapshotKeyConflict(sns, id) == \E i \in 1..Len(sns) : sns[i].id = id

\* The column values _insert_snapshot binds from a parsed record.
SnapshotRow(s) ==
    [id |-> s.id, timestamp |-> s.timestamp, object_kind |-> s.object_kind,
     object_name |-> s.object_name, namespace |-> s.namespace,
     trigger_event |-> s.trigger_event]

\* A plausible slip: plain INSERT semantics, a second row for the same id.
InsertSnapshotAlways(sns, s) == Append(sns, SnapshotRow(s))

\* _insert_snapshot: INSERT OR IGNORE INTO snapshots.
InsertSnapshot(sns, s) ==
    IF SnapshotKeyConflict(sns, s.id) THEN sns ELSE Append(sns, SnapshotRow(s))

\* f"{cause}->{effect}"
EdgeId(cause, effect) == <<cause, "->", effect>>

EdgeRow(cause, effect, conf) ==
    [id |-> EdgeId(cause, effect), cause_event_id |-> cause,
     effect_event_id |-> effect, pattern_id |-> "P001",
     confidence |-> conf, edge_type |-> "direct"]

\* A plausible slip: the insert is not guarded by the derived identifier.
InsertEdgeAlways(eds, cause, effect, conf) ==
    eds (+) SetToBag({EdgeRow(cause, effect, conf)})

\* INSERT INTO causal_edges ... ; except sqlite3.IntegrityError: pass
InsertEdge(eds, cause, effect, conf) ==
    IF EdgeKeyConflict(eds, EdgeId(cause, effect))
    THEN eds
    ELSE eds (+) SetToBag({EdgeRow(cause, effect, conf)})

(* ------------------------------------------------------------------ *)
(* ORDER BY timestamp ... LIMIT k                                      *)
(* ------------------------------------------------------------------ *)

\* Rows with equal timestamps come out in the order the chosen query plan
\* visits them: by ascending rowid (table scan and sort) or by descending
\* rowid (backward scan of an index on timestamp).  Which plan is used
\* depends on the schema; it is fixed for a run (tieOrder).
TieFirst(i, j) == IF tieOrder = "rowid_asc" THEN i < j ELSE i > j

\* The row of cand that ORDER BY timestamp DESC puts first.
FirstDesc(evs, cand) ==
    CHOOSE i \in cand : \A j \in cand \ {i} :
        \/ TextLess(evs[j].timestamp, evs[i].timestamp)
        \/ evs[j].timestamp = evs[i].timestamp /\ TieFirst(i, j)

\* A plausible slip: the chain query written with ORDER BY ... DESC.
FirstAscAsDesc(evs, cand) == FirstDesc(evs, cand)

\* The row of cand that ORDER BY timestamp ASC puts first.
FirstAsc(evs, cand) ==
    CHOOSE i \in cand : \A j \in cand \ {i} :
        \/ TextLess(evs[i].timestamp, evs[j].timestamp)
        \/ evs[j].timestamp = evs[i].timestamp /\ TieFirst(i, j)

RECURSIVE OrderDescLimit(_, _, _)
\* ORDER BY timestamp DESC LIMIT k over the rows (rowids) cand.
OrderDescLimit(evs, cand, k) ==
    IF k = 0 \/ cand = {} THEN <<>>
    ELSE LET b == FirstDesc(evs, cand)
         IN  <<b>> \o OrderDescLimit(evs, cand \ {b}, k - 1)

RECURSIVE OrderAsc(_, _)
\* ORDER BY timestamp ASC over the rows (rowids) cand.
OrderAsc(evs, cand) ==
    IF cand = {} THEN <<>>
    ELSE LET b == FirstAsc(evs, cand)
         IN  <<b>> \o OrderAsc(evs, cand \ {b})

(* ------------------------------------------------------------------ *)
(* Causal linker: _build_edges                                         *)
(* ------------------------------------------------------------------ *)

\* A plausible slip: the event_type filter left out of the node-pressure
\* rule's WHERE clause.
P001WhereAnyType(evs, event) ==
    {i \in 1..Len(evs) :
        /\ evs[i].node_name = event.node_name
        /\ TextLeq(evs[i].timestamp, event.timestamp)
        /\ TextLeq(SqlDatetime(event.timestamp, 0 - WindowP001), evs[i].timestamp)}

\* WHERE clause of the memory-pressure rule.
P001Where(evs, event) ==
    {i \in 1..Len(evs) :
        /\ evs[i].event_type = "NodeMemoryPressure"
        /\ evs[i].node_name = event.node_name
        /\ TextLeq(evs[i].timestamp, event.timestamp)
        /\ TextLeq(SqlDatetime(event.timestamp, 0 - WindowP001), evs[i].timestamp)}

\* WHERE clause of the OOM-evidence rule.
EvidenceWhere(evs, event) ==
    {i \in 1..Len(evs) :
        /\ evs[i].event_type = "OOMKill"
        /\ evs[i].pod_name = event.pod_name
        /\ evs[i].namespace = event.namespace
        /\ TextLeq(evs[i].timestamp, event.timestamp)
        /\ TextLeq(SqlDatetime(event.timestamp, 0 - WindowEvidence), evs[i].timestamp)}

RECURSIVE InsertEdges(_, _, _, _, _)
\* for r in rows: insert the edge r.id -> event.id
InsertEdges(eds, evs, rows, effect, conf) ==
    IF rows = <<>> THEN eds
    ELSE InsertEdges(InsertEdge(eds, evs[Head(rows)].id, effect, conf),
                     evs, Tail(rows), effect, conf)

RECURSIVE InsertEdgesFrom(_, _, _, _, _)
\* for r in rows: insert the edge cause -> r.id
InsertEdgesFrom(eds, evs, rows, cause, conf) ==
    IF rows = {} THEN eds
    ELSE LET r == CHOOSE x \in rows : TRUE
         IN  InsertEdgesFrom(InsertEdge(eds, cause, evs[r].id, conf),
                             evs, rows \ {r}, cause, conf)

\* A plausible slip: a linker that also links backwards, from a pressure
\* event that arrives late to the stored OOM kills of its node that follow
\* it.
BuildEdgesRetroactive(evs, eds, event) ==
    LET t == event.event_type
        afterP001 ==
            IF t = "OOMKill"
            THEN InsertEdges(eds, evs,
                             OrderDescLimit(evs, P001Where(evs, event), LimitP001),
                             event.id, "0.9")
            ELSE eds
        r == OrderDescLimit(evs, EvidenceWhere(evs, event), LimitEvidence)
        later == {i \in 1..Len(evs) :
                     /\ evs[i].event_type = "OOMKill"
                     /\ evs[i].node_name = event.node_name
                     /\ TextLeq(event.timestamp, evs[i].timestamp)}
    IN  IF t = "OOMKillEvidence" /\ r # <<>>
        THEN InsertEdge(afterP001, evs[r[1]].id, event.id, "1.0")
        ELSE IF t = "NodeMemoryPressure"
        THEN InsertEdgesFrom(afterP001, evs, later, event.id, "0.9")
        ELSE afterP001

\* _build_edges(conn, event), run against the events table evs.
BuildEdges(evs, eds, event) ==
    LET t == event.event_type
        afterP001 ==
            IF t = "OOMKill"
            THEN InsertEdges(eds, evs,
                             OrderDescLimit(evs, P001Where(evs, event), LimitP001),
                             event.id, "0.9")
            ELSE eds
        r == OrderDescLimit(evs, EvidenceWhere(evs, event), LimitEvidence)
    IN  IF t = "OOMKillEvidence" /\ r # <<>>
        THEN InsertEdge(afterP001, evs[r[1]].id, event.id, "1.0")
        ELSE afterP001

\* _insert_event(conn, event); _build_edges(conn, event):
\* the events and causal_edges tables after the record e has been processed
\* against the tables evs, eds.
AfterEvent(evs, eds, e) ==
    LET evs2 == InsertEvent(evs, e)
    IN  [events |-> evs2, edges |-> BuildEdges(evs2, eds, e)]

(* ------------------------------------------------------------------ *)
(* Q1: causal chain (query_causal_chain, _walk_chain, GET /causal-chain) *)
(* ------------------------------------------------------------------ *)

\* The rows of the JOIN for the node id: the events that are cause of id
\* by an edge.
CauseRows(evs, eds, id) ==
    {i \in 1..Len(evs) :
        \E x \in BagToSet(eds) :
            x.effect_event_id = id /\ x.cause_event_id = evs[i].id}

\* The edge a JOIN row was produced from.
CauseEdge(eds, cause, effect) ==
    CHOOSE x \in BagToSet(eds) :
        x.effect_event_id = effect /\ x.cause_event_id = cause

\* d = dict(c): the event's columns with the edge's confidence and edge_type.
ChainNode(row, edge, children) ==
    [id |-> row.id, timestamp |-> row.timestamp, event_type |-> row.event_type,
     confidence |-> edge.confidence, edge_type |-> edge.edge_type,
     children |-> children]

RECURSIVE WalkChainOffByOne(_, _, _, _, _)
\* A plausible slip: the bound test written depth > max_depth.
WalkChainOffByOne(evs, eds, id, depth, max_depth) ==
    IF depth > max_depth THEN <<>>
    ELSE LET causes == OrderAsc(evs, CauseRows(evs, eds, id))
         IN  [k \in 1..Len(causes) |->
                ChainNode(evs[causes[k]],
                          CauseEdge(eds, evs[causes[k]].id, id),
                          WalkChainOffByOne(evs, eds, evs[causes[k]].id,
                                            depth + 1, max_depth))]

RECURSIVE WalkChain(_, _, _, _, _)
\* _walk_chain(conn, event, depth, max_depth)
WalkChain(evs, eds, id, depth, max_depth) ==
    IF depth >= max_depth THEN <<>>
    ELSE LET causes == OrderAsc(evs, CauseRows(evs, eds, id))
         IN  [k \in 1..Len(causes) |->
                ChainNode(evs[causes[k]],
                          CauseEdge(eds, evs[causes[k]].id, id),
                          WalkChain(evs, eds, evs[causes[k]].id,
                                    depth + 1, max_depth))]

AnchorTypes == {"OOMKill", "CrashLoopBackOff", "ContainerTerminated"}

\* A plausible slip: the event_type filter left out of the anchor query.
AnchorWhereAnyType(evs, pod, ns) ==
    {i \in 1..Len(evs) : evs[i].pod_name = pod /\ evs[i].namespace = ns}

\* WHERE clause of the anchor query.
AnchorWhere(evs, pod, ns) ==
    {i \in 1..Len(evs) :
        /\ evs[i].pod_name = pod
        /\ evs[i].namespace = ns
        /\ evs[i].event_type \in AnchorTypes}

\* The anchor row, as a sequence of at most one rowid.  event_id = 0 stands
\* for "no event id given" (None).
AnchorRow(evs, pod, ns, event_id) ==
    IF event_id # 0
    THEN OrderDescLimit(evs, {i \in 1..Len(evs) : evs[i].id = event_id}, 1)
    ELSE OrderDescLimit(evs, AnchorWhere(evs, pod, ns), 1)

\* What the query reports: the "no events found" result, or the anchor and
\* its chain.
CausalChainResponse(evs, eds, pod, ns, event_id) ==
    LET a == AnchorRow(evs, pod, ns, event_id)
    IN  IF a = <<>>
        THEN [query |-> "causal-chain", found |-> FALSE, anchor |-> <<>>,
              chain |-> <<>>, message |-> "no events found"]
        ELSE [query |-> "causal-chain", found |-> TRUE,
              anchor |-> <<evs[a[1]]>>,
              chain |-> WalkChain(evs, eds, evs[a[1]].id, 0, MaxDepth),
              message |-> ""]

\* No query has been answered yet.
NoResponse ==
    [query |-> "none", found |-> FALSE, anchor |-> <<>>, chain |-> <<>>,
     message |-> ""]

(* ------------------------------------------------------------------ *)
(* Q3: state at time (query_state_at, GET /state-at)                   *)
(* ------------------------------------------------------------------ *)

\* A plausible slip: the namespace='' alternative left out.
StateAtWhereExactNamespace(sns, object_kind, object_name, namespace, query_time) ==
    {i \in 1..Len(sns) :
        /\ sns[i].object_kind = object_kind
        /\ sns[i].object_name = object_name
        /\ sns[i].namespace = namespace
        /\ TextLeq(sns[i].timestamp, query_time)}

\* WHERE clause of the snapshot query.  (No stored namespace is NULL: the
\* collector writes namespace as a string, and _insert_snapshot defaults
\* it to "".)
StateAtWhere(sns, object_kind, object_name, namespace, query_time) ==
    {i \in 1..Len(sns) :
        /\ sns[i].object_kind = object_kind
        /\ sns[i].object_name = object_name
        /\ (sns[i].namespace = namespace \/ sns[i].namespace = "")
        /\ TextLeq(sns[i].timestamp, query_time)}

\* What the query reports: {"found": False, ...} or the snapshot row.
StateAtResponse(sns, object_kind, object_name, namespace, query_time) ==
    LET snap == OrderDescLimit(sns,
                    StateAtWhere(sns, object_kind, object_name, namespace,
                                 query_time), 1)
    IN  IF snap = <<>>
        THEN [query |-> "state-at", found |-> FALSE, snapshot |-> <<>>,
              object |-> <<object_kind, object_name>>, query_time |-> query_time]
        ELSE [query |-> "state-at", found |-> TRUE, snapshot |-> <<sns[snap[1]]>>,
              object |-> <<object_kind, object_name>>, query_time |-> query_time]

(* ------------------------------------------------------------------ *)
(* Q2: pattern history (query_pattern_history, GET /pattern-history)   *)
(* ------------------------------------------------------------------ *)

\* datetime('now', '-<days> days') when the clock reads the instant now.
LookbackCutoff(now, days) == SqlDatetime(IsoText(now), 0 - days * SecondsPerDay)

\* WHERE clause of the history query.  pod_name = "" and namespace = ""
\* stand for a filter that is not supplied (`if pod_name:`); the HTTP
\* endpoint supplies neither.
PatternHistoryWhere(evs, pattern_id, pod_name, namespace, days, now) ==
    {i \in 1..Len(evs) :
        /\ evs[i].pattern_id = pattern_id
        /\ (pod_name # "" => evs[i].pod_name = pod_name)
        /\ (namespace # "" => evs[i].namespace = namespace)
        /\ TextLeq(LookbackCutoff(now, days), evs[i].timestamp)}

\* The columns the history query selects.
HistoryRow(row) ==
    [id |-> row.id, timestamp |-> row.timestamp, event_type |-> row.event_type,
     pod_name |-> row.pod_name, namespace |-> row.namespace,
     node_name |-> row.node_name]

\* What the query reports: the rows by descending timestamp and their number.
PatternHistoryResponse(evs, pattern_id, pod_name, namespace, days, now) ==
    LET rows == OrderDescLimit(evs,
                    PatternHistoryWhere(evs, pattern_id, pod_name, namespace,
                                        days, now), Len(evs))
    IN  [query |-> "pattern-history", pattern |-> pattern_id, days |-> days,
         count |-> Len(rows),
         events |-> [k \in 1..Len(rows) |-> HistoryRow(evs[rows[k]])]]

(* ------------------------------------------------------------------ *)
(* Summary (query_summary, GET /summary)                               *)
(* ------------------------------------------------------------------ *)

\* SELECT pattern_id, COUNT(*) FROM events WHERE pattern_id != ''
\* GROUP BY pattern_id
PatternCounts(evs) ==
    {<<p, Cardinality({i \in 1..Len(evs) : evs[i].pattern_id = p})>> :
        p \in {evs[i].pattern_id : i \in 1..Len(evs)} \ {""}}

\* The three COUNT(*) and the pattern distribution.
SummaryResponse(evs, eds, sns) ==
    [query |-> "summary", events_count |-> Len(evs),
     causal_edges_count |-> BagCardinality(eds), snapshots_count |-> Len(sns),
     patterns |-> PatternCounts(evs)]

(* ------------------------------------------------------------------ *)
(* Input records                                                       *)
(* ------------------------------------------------------------------ *)

Ids == 1..MaxId

\* A parsed event record (one JSON object of events.jsonl) with every key set.
EventRecord(id, type, pod, ns, node, t) ==
    [id |-> id, timestamp |-> IsoText(t), event_type |-> type,
     pattern_id |-> "P001", pod_name |-> pod, namespace |-> ns,
     node_name |-> node]

\* Records that exercise the memory-pressure rule: node-level pressure
\* events and OOM kills of one pod, on two nodes.
P001Records ==
    {EventRecord(id, type, "p1", "default", node, t) :
        id \in Ids, type \in {"NodeMemoryPressure", "OOMKill"},
        node \in {"n1", "n2"}, t \in Times}

\* Records of every type the linker distinguishes, for one pod on one node,
\* stamped 400 s apart on one day.
MainRecords ==
    {EventRecord(id, type, "p1", "default", "n1", t) :
        id \in 1..MaxMainId,
        type \in {"NodeMemoryPressure", "OOMKill", "OOMKillEvidence"},
        t \in {86500, 86900}}

\* Records of the scenario "pressure at T, OOM kill at T + 60 s" and its
\* neighbours: one pod on one node, stamped at T and at T + 60 s.
ChainRecords ==
    {EventRecord(id, type, "p1", "default", "n1", t) :
        id \in Ids,
        type \in {"NodeMemoryPressure", "OOMKill", "OOMKillEvidence"},
        t \in {86300, 86360}}

\* Records of every type the linker distinguishes, all with one timestamp:
\* with reused ids they build self-loops and cycles.
WalkRecords ==
    {EventRecord(id, type, "p1", "default", "n1", 86500) :
        id \in 1..MaxMainId,
        type \in {"NodeMemoryPressure", "OOMKill", "OOMKillEvidence"}}

\* The (pod_name, namespace) pairs of the anchor runs: two pods of one
\* namespace, and the first pod's name again in another namespace.
Placements == {<<"p1", "default">>, <<"p2", "default">>, <<"p1", "kube-system">>}

\* Records of the three anchor types and of two other types, stamped 400 s
\* apart.
AnchorRecords ==
    {EventRecord(id, type, pl[1], pl[2], "n1", t) :
        id \in 1..MaxAnchorId,
        type \in {"OOMKill", "CrashLoopBackOff", "ContainerTerminated",
                  "OOMKillEvidence", "NodeMemoryPressure"},
        pl \in Placements, t \in {86500, 86900}}

\* A parsed snapshot record (one JSON object of snapshots.jsonl).
SnapshotRecord(id, kind, name, ns, t) ==
    [id |-> id, timestamp |-> IsoText(t), object_kind |-> kind,
     object_name |-> name, namespace |-> ns, trigger_event |-> ""]

SnapshotRecords ==
    {SnapshotRecord(id, "Pod", "p1", "default", 86500) : id \in 1..MaxSnapId}

\* Namespaces of snapshot records; "" is what a record without one gets.
SnapNamespaces == {"default", "kube-system", ""}

\* Snapshots taken late on day 0 and 200 s later on day 1 ...
SnapTimes == {86300, 86500}

\* ... and the times Q3 is asked about: before, between and after them.
QueryTimes == {86200, 86400, 86600}

\* Snapshots of Pod/foo in every namespace at both times, and one snapshot
\* each of an object of another name and of another kind.
StateRecords ==
    {SnapshotRecord(id, "Pod", "foo", ns, t) :
        id \in 1..MaxStateId, ns \in SnapNamespaces, t \in SnapTimes}
    \cup {SnapshotRecord(id, "Pod", "bar", "default", 86300) : id \in 1..MaxStateId}
    \cup {SnapshotRecord(id, "Node", "foo", "default", 86300) : id \in 1..MaxStateId}

\* The clock when Q2 is asked: noon of day 10.
Now == 10 * SecondsPerDay + 43200

\* Lookbacks asked for (--days).
Lookbacks == {5, 30}

\* Instants of the history records: 10 days, 5 days 6 hours, 4 days 18 hours
\* and 1 day before Now.
HistoryTimes ==
    {43200, 5 * SecondsPerDay + 21600, 5 * SecondsPerDay + 64800,
     9 * SecondsPerDay + 43200}

\* A record tagged with a pattern.
PatternRecord(id, pattern, pod, ns, t) ==
    [EventRecord(id, "CrashLoopBackOff", pod, ns, "n1", t)
        EXCEPT !.pattern_id = pattern]

\* Records of pattern P001 for pod p1 at every time, and one record each of
\* another pod, another namespace and another pattern.
HistoryRecords ==
    {PatternRecord(id, "P001", "p1", "default", t) :
        id \in 1..MaxHistoryId, t \in HistoryTimes}
    \cup {PatternRecord(id, "P001", "p2", "default", 9 * SecondsPerDay + 43200) :
            id \in 1..MaxHistoryId}
    \cup {PatternRecord(id, "P001", "p1", "kube-system", 9 * SecondsPerDay + 43200) :
            id \in 1..MaxHistoryId}
    \cup {PatternRecord(id, "P002", "p1", "default", 9 * SecondsPerDay + 43200) :
            id \in 1..MaxHistoryId}

\* Records that exercise the OOM-evidence rule: OOM kills and their
\* evidence, for the pods and namespaces of Placements.
EvidenceRecords ==
    {EventRecord(id, type, pl[1], pl[2], "n1", t) :
        id \in Ids, type \in {"OOMKill", "OOMKillEvidence"},
        pl \in Placements, t \in Times}

\* Pressure events and OOM kills of one pod, stamped 60 s apart.
ReadRecords ==
    {EventRecord(id, type, "p1", "default", "n1", t) :
        id \in 1..MaxMainId, type \in {"NodeMemoryPressure", "OOMKill"},
        t \in {86300, 86360}}

\* Pressure events and OOM kills on a single node, enough of them to exceed
\* the rule's LIMIT.
CapRecords ==
    {EventRecord(id, type, "p1", "default", "n1", t) :
        id \in 1..MaxCapId, type \in {"NodeMemoryPressure", "OOMKill"},
        t \in Times}

\* Identifiers are opaque, so the k-th distinct id a run uses is named k:
\* a record brings the next unused id ...
Fresh(e) == e.id = Len(events) + 1

\* ... or is a replay of a record already stored ...
Replay(e) == \E i \in 1..Len(events) : events[i] = EventRow(e)

\* ... or reuses a stored id with other field values.
Collide(e) == EventKeyConflict(events, e.id) /\ ~Replay(e)

(* ------------------------------------------------------------------ *)
(* Actions                                                             *)
(* ------------------------------------------------------------------ *)

Init ==
    /\ events = <<>>
    /\ edges = EmptyBag
    /\ snaps = <<>>
    /\ tieOrder \in {"rowid_asc", "rowid_desc"}
    /\ response = NoResponse
    /\ mode = "records"
    /\ pc = "idle"
    /\ evBytes = <<>>
    /\ epos = 0
    /\ cursor = 0
    /\ durable = [events |-> <<>>, edges |-> EmptyBag, snaps |-> <<>>]
    /\ evExists = FALSE
    /\ snExists = FALSE
    /\ snBytes = <<>>
    /\ spos = 0
    /\ processed = <<>>

\* The body of the try block for one parsed record:
\* _insert_event(conn, event); _build_edges(conn, event)
IngestEvent(e) ==
    /\ events' = AfterEvent(events, edges, e).events
    /\ edges' = AfterEvent(events, edges, e).edges
    /\ UNCHANGED <<snaps, tieOrder, response>>
    /\ UNCHANGED pipeVars

\* The body of the try block for one parsed snapshot record.
IngestSnapshot(s) ==
    /\ snaps' = InsertSnapshot(snaps, s)
    /\ UNCHANGED <<events, edges, tieOrder, response>>
    /\ UNCHANGED pipeVars

\* query_causal_chain(conn, pod_name, namespace, event_id): a pure read.
QueryCausalChain(pod, ns, event_id) ==
    /\ response' = CausalChainResponse(events, edges, pod, ns, event_id)
    /\ UNCHANGED <<events, edges, snaps, tieOrder>>
    /\ UNCHANGED pipeVars

\* query_state_at(conn, object_kind, object_name, namespace, query_time):
\* a pure read.
QueryStateAt(object_kind, object_name, namespace, query_time) ==
    /\ response' = StateAtResponse(snaps, object_kind, object_name, namespace,
                                   query_time)
    /\ UNCHANGED <<events, edges, snaps, tieOrder>>
    /\ UNCHANGED pipeVars

\* A plausible slip: a history query that also prunes the events older than
\* the lookback.
QueryPatternHistoryPruning(pattern_id, pod_name, namespace, days, now) ==
    /\ response' = PatternHistoryResponse(events, pattern_id, pod_name,
                                          namespace, days, now)
    /\ events' = SelectSeq(events,
                    LAMBDA row : TextLeq(LookbackCutoff(now, days), row.timestamp))
    /\ UNCHANGED <<edges, snaps, tieOrder>>
    /\ UNCHANGED pipeVars

\* query_pattern_history(conn, pattern_id, pod_name, namespace, days), run
\* when the clock reads now: a pure read.
QueryPatternHistory(pattern_id, pod_name, namespace, days, now) ==
    /\ response' = PatternHistoryResponse(events, pattern_id, pod_name,
                                          namespace, days, now)
    /\ UNCHANGED <<events, edges, snaps, tieOrder>>
    /\ UNCHANGED pipeVars

\* query_summary(conn): a pure read.
QuerySummary ==
    /\ response' = SummaryResponse(events, edges, snaps)
    /\ UNCHANGED <<events, edges, snaps, tieOrder>>
    /\ UNCHANGED pipeVars

\* Any producer: fresh ids, replays, and stored ids with other values.
Next ==
    \/ \E e \in MainRecords :
          (Fresh(e) \/ Replay(e) \/ Collide(e)) /\ IngestEvent(e)
    \/ \E s \in SnapshotRecords :
          s.id <= Len(snaps) + 1 /\ IngestSnapshot(s)

Spec == Init /\ [][Next]_vars

\* A producer that keeps ids unique feeds the memory-pressure rule.
NextP001 == \E e \in P001Records : (Fresh(e) \/ Replay(e)) /\ IngestEvent(e)

SpecP001 == Init /\ [][NextP001]_vars

\* The same producer on one node, with more events.
NextCap == \E e \in CapRecords : (Fresh(e) \/ Replay(e)) /\ IngestEvent(e)

SpecCap == Init /\ [][NextCap]_vars

\* Ingestion by any producer, and Q1 from any stored anchor.
NextWalk ==
    \/ \E e \in WalkRecords :
          (Fresh(e) \/ Replay(e) \/ Collide(e)) /\ IngestEvent(e)
    \/ \E id \in 1..MaxMainId : QueryCausalChain("p1", "default", id)
    \/ QueryCausalChain("p1", "default", 0)

SpecWalk == Init /\ [][NextWalk]_vars

\* A producer that keeps ids unique, and Q1 by pod or by event id.
NextChain ==
    \/ \E e \in ChainRecords : (Fresh(e) \/ Replay(e)) /\ IngestEvent(e)
    \/ \E id \in Ids : QueryCausalChain("p1", "default", id)
    \/ QueryCausalChain("p1", "default", 0)

SpecChain == Init /\ [][NextChain]_vars

\* A producer that keeps ids unique, and Q1 by pod and namespace
\* (GET /causal-chain?pod=..&namespace=..).
NextAnchor ==
    \/ \E e \in AnchorRecords : (Fresh(e) \/ Replay(e)) /\ IngestEvent(e)
    \/ \E pl \in Placements : QueryCausalChain(pl[1], pl[2], 0)

SpecAnchor == Init /\ [][NextAnchor]_vars

\* Snapshots of several objects and namespaces, and Q3 about Pod/foo.
NextStateAt ==
    \/ \E s \in StateRecords : s.id <= Len(snaps) + 1 /\ IngestSnapshot(s)
    \/ \E ns \in {"default", "kube-system"}, t \in QueryTimes :
          QueryStateAt("Pod", "foo", ns, IsoText(t))

SpecStateAt == Init /\ [][NextStateAt]_vars

\* A producer that keeps ids unique, and Q2 about pattern P001 with and
\* without the pod and namespace filters.
NextHistory ==
    \/ \E e \in HistoryRecords : (Fresh(e) \/ Replay(e)) /\ IngestEvent(e)
    \/ \E pod \in {"", "p1"}, ns \in {"", "default"}, days \in Lookbacks :
          QueryPatternHistory("P001", pod, ns, days, Now)

SpecHistory == Init /\ [][NextHistory]_vars

\* A producer that keeps ids unique feeds the OOM-evidence rule.
NextEvidence ==
    \E e \in EvidenceRecords : (Fresh(e) \/ Replay(e)) /\ IngestEvent(e)

SpecEvidence == Init /\ [][NextEvidence]_vars

\* Ingestion of events and snapshots, and every query of the read model,
\* with arguments that find something and arguments that find nothing.
NextReads ==
    \/ \E e \in ReadRecords : (Fresh(e) \/ Replay(e)) /\ IngestEvent(e)
    \/ \E s \in SnapshotRecords : s.id <= Len(snaps) + 1 /\ IngestSnapshot(s)
    \/ \E pod \in {"p1", "p2"} : QueryCausalChain(pod, "default", 0)
    \/ \E days \in Lookbacks : QueryPatternHistory("P001", "", "", days, Now)
    \/ \E t \in QueryTimes : QueryStateAt("Pod", "p1", "default", IsoText(t))
    \/ QuerySummary

SpecReads == Init /\ [][NextReads]_vars

(* ------------------------------------------------------------------ *)
(* The events.jsonl and snapshots.jsonl sources and their lines        *)
(* ------------------------------------------------------------------ *)

\* A file is a sequence of bytes.  The text of a line is written in two
\* pieces <<name, 1>>, <<name, 2>> (the producer may flush between them),
\* followed by the terminator.
Newline == <<"nl", 0>>

\* The lines that carry a well-formed event record: e1 and e2, and e1x, a
\* record that reuses the id of e1 with other field values.
RecordNames == {"e1", "e2", "e1x"}

\* The lines a producer writes to events.jsonl: the well-formed records, a
\* line that is not JSON, and a JSON object without the key "id".
LineNames == RecordNames \cup {"garbage", "nokey"}

\* The lines a producer writes to snapshots.jsonl.
SnapLineNames == {"s1"}

LineText(name) == <<<<name, 1>>, <<name, 2>>>>

\* The record a well-formed line carries (json.loads of its text).
SourceRecord(name) ==
    IF name = "e1"
    THEN EventRecord(1, "NodeMemoryPressure", "p1", "default", "n1", 86300)
    ELSE IF name = "e2"
    THEN EventRecord(2, "OOMKill", "p1", "default", "n1", 86360)
    ELSE EventRecord(1, "OOMKill", "p1", "default", "n1", 86330)

\* The snapshot record the line s1 carries.
SnapSourceRecord(name) == SnapshotRecord(1, "Pod", "p1", "default", 86500)

RECURSIVE SplitLines(_)
\* f.readlines() / iteration over the file: the bytes cut after every
\* terminator; the last piece has none when the file does not end with one.
SplitLines(bytes) ==
    IF bytes = <<>> THEN <<>>
    ELSE LET ends == {k \in 1..Len(bytes) : bytes[k] = Newline}
         IN  IF ends = {} THEN <<bytes>>
             ELSE LET k == CHOOSE m \in ends : \A n \in ends : m <= n
                  IN  <<SubSeq(bytes, 1, k)>>
                         \o SplitLines(SubSeq(bytes, k + 1, Len(bytes)))

\* line.strip()
Strip(line) == SelectSeq(line, LAMBDA b : b # Newline)

\* What the try block meets for a stripped, non-empty line:
\*   "record"   json.loads gives an object with every key
\*   "KeyError" json.loads gives an object, _insert_event raises KeyError
\*   "JSONDecodeError" json.loads raises
ParseLine(text) ==
    IF \E name \in RecordNames \cup SnapLineNames : text = LineText(name)
    THEN "record"
    ELSE IF text = LineText("nokey") THEN "KeyError"
    ELSE "JSONDecodeError"

\* One iteration of `for line in lines`: strip, skip blank lines, try to
\* load and ingest; only JSONDecodeError and IntegrityError are caught.
ProcessLine(st, line) ==
    LET text == Strip(line)
    IN  IF text = <<>> THEN st
        ELSE IF ParseLine(text) = "JSONDecodeError" THEN st
        ELSE IF ParseLine(text) = "KeyError"
             THEN [st EXCEPT !.aborted = TRUE]
        ELSE LET after == AfterEvent(st.events, st.edges,
                                     SourceRecord(text[1][1]))
             IN  [events |-> after.events, edges |-> after.edges,
                  aborted |-> FALSE,
                  processed |-> Append(st.processed, text[1][1])]

RECURSIVE ProcessLines(_, _)
\* The for loop over the lines read in one polling cycle; an uncaught
\* exception leaves the loop.
ProcessLines(st, lines) ==
    IF lines = <<>> \/ st.aborted THEN st
    ELSE ProcessLines(ProcessLine(st, Head(lines)), Tail(lines))

RECURSIVE ProcessSnapshotLines(_, _)
\* The for loop over the lines of snapshots.jsonl read in one cycle.
ProcessSnapshotLines(sns, lines) ==
    IF lines = <<>> THEN sns
    ELSE LET text == Strip(Head(lines))
             sns2 == IF text # <<>> /\ ParseLine(text) = "record"
                     THEN InsertSnapshot(sns, SnapSourceRecord(text[1][1]))
                     ELSE sns
         IN  ProcessSnapshotLines(sns2, Tail(lines))

\* Files of complete lines, up to n of them.
RECURSIVE CompleteFiles(_)
CompleteFiles(n) ==
    IF n = 0 THEN {<<>>}
    ELSE LET shorter == CompleteFiles(n - 1)
         IN  shorter \cup
             {f \o LineText(name) \o <<Newline>> :
                 f \in shorter, name \in LineNames}

\* Number of lines begun in the file.
LinesBegun(bytes) == Len(SplitLines(bytes))

\* The collector has lines left to write.
LinesLeft == LinesBegun(evBytes) + LinesBegun(snBytes) < MaxLines

\* The bytes the collector may write next to a file whose lines have the
\* given names: the rest of the line it is writing, or the beginning of a
\* new line.
NextBytes(bytes, names) ==
    IF bytes = <<>> \/ bytes[Len(bytes)] = Newline
    THEN IF LinesLeft THEN {<<name, 1>> : name \in names} ELSE {}
    ELSE IF bytes[Len(bytes)][2] = 1
         THEN {<<bytes[Len(bytes)][1], 2>>}
         ELSE {Newline}

(* ------------------------------------------------------------------ *)
(* Pipeline actions: main, ingest_events, watch_and_ingest             *)
(* ------------------------------------------------------------------ *)

\* The tables as one value.
View(evs, eds, sns) == [events |-> evs, edges |-> eds, snaps |-> sns]

\* A plausible slip: a connection in autocommit mode (isolation_level=None),
\* where every statement is committed as it is executed.
AfterStatementAutocommit(dur, view) == view

\* The committed tables after a statement executed through conn.execute:
\* the sqlite3 module opens a transaction before the first INSERT and keeps
\* it open until conn.commit(), so nothing becomes visible.
AfterStatement(dur, view) == dur

\* main(): --events PATH on a finished file, or --watch DIR on a directory
\* in which the collector has not created its files yet.  No two records of
\* the source have the same timestamp, so the order of ties plays no part.
InitPipeline ==
    /\ events = <<>>
    /\ edges = EmptyBag
    /\ snaps = <<>>
    /\ tieOrder = "rowid_asc"
    /\ response = NoResponse
    /\ mode \in {"batch", "watch"}
    /\ pc = "run"
    /\ evBytes \in (IF mode = "batch" THEN CompleteFiles(MaxLines) ELSE {<<>>})
    /\ evExists = (mode = "batch")
    /\ epos = 0
    /\ cursor = 0
    /\ durable = View(<<>>, EmptyBag, <<>>)
    /\ snExists = FALSE
    /\ snBytes = <<>>
    /\ spos = 0
    /\ processed = <<>>

\* The process dies of an uncaught exception: the open transaction is lost.
Abort ==
    /\ pc' = "aborted"
    /\ events' = durable.events
    /\ edges' = durable.edges
    /\ UNCHANGED <<snaps, durable>>

\* ingest_events: one iteration of `for line in f`, up to and including
\* _insert_event.
IngestEventsLine ==
    /\ mode = "batch" /\ pc = "run"
    /\ cursor < Len(SplitLines(evBytes))
    /\ LET text == Strip(SplitLines(evBytes)[cursor + 1])
       IN  IF text = <<>> \/ ParseLine(text) = "JSONDecodeError"
           THEN /\ cursor' = cursor + 1
                /\ UNCHANGED <<events, edges, snaps, durable, pc, processed>>
           ELSE IF ParseLine(text) = "KeyError"
           THEN /\ cursor' = cursor + 1
                /\ Abort
                /\ UNCHANGED processed
           ELSE /\ events' = InsertEvent(events, SourceRecord(text[1][1]))
                /\ processed' = Append(processed, text[1][1])
                /\ pc' = "link"
                /\ durable' = AfterStatement(durable, View(events', edges, snaps))
                /\ UNCHANGED <<edges, snaps, cursor>>
    /\ UNCHANGED <<tieOrder, response, mode, evBytes, epos, evExists, snExists,
                   snBytes, spos>>

\* ingest_events: _build_edges for the record just inserted, and on to the
\* next line.
IngestEventsLink ==
    /\ mode = "batch" /\ pc = "link"
    /\ LET text == Strip(SplitLines(evBytes)[cursor + 1])
       IN  edges' = BuildEdges(events, edges, SourceRecord(text[1][1]))
    /\ durable' = AfterStatement(durable, View(events, edges', snaps))
    /\ cursor' = cursor + 1
    /\ pc' = "run"
    /\ UNCHANGED <<events, snaps, tieOrder, response, mode, evBytes, epos,
                   evExists, snExists, snBytes, spos, processed>>

\* ingest_events: the file is exhausted; conn.commit() and return.
IngestEventsCommit ==
    /\ mode = "batch" /\ pc = "run"
    /\ cursor = Len(SplitLines(evBytes))
    /\ durable' = View(events, edges, snaps)
    /\ pc' = "done"
    /\ UNCHANGED <<events, edges, snaps, tieOrder, response, mode, evBytes,
                   epos, cursor, evExists, snExists, snBytes, spos, processed>>

\* The collector appends the next piece of events.jsonl, creating the file
\* with its first write.
ProducerAppend ==
    /\ mode = "watch"
    /\ \E b \in NextBytes(evBytes, LineNames) :
          evBytes' = Append(evBytes, b)
    /\ evExists' = TRUE
    /\ UNCHANGED <<events, edges, snaps, tieOrder, response, mode, pc, epos,
                   cursor, durable, snExists, snBytes, spos, processed>>

\* The collector appends the next piece of snapshots.jsonl, creating the
\* file with its first write.
ProducerAppendSnapshots ==
    /\ mode = "watch"
    /\ \E b \in NextBytes(snBytes, SnapLineNames) :
          snBytes' = Append(snBytes, b)
    /\ snExists' = TRUE
    /\ UNCHANGED <<events, edges, snaps, tieOrder, response, mode, pc, epos,
                   cursor, durable, evExists, evBytes, spos, processed>>

\* A plausible slip: the offset taken from the size of the file
\* (epos = os.path.getsize(ep)).
TellFileSize(bytes, pos) == Len(bytes)

\* f.tell() after f.seek(pos) and f.readlines(): the end of the file, or the
\* position sought when that lies beyond the end of the file.
Tell(bytes, pos) == IF pos > Len(bytes) THEN pos ELSE Len(bytes)

\* The collector appends the next piece of events.jsonl, all of whose lines
\* are well-formed records with ids of their own.
ProducerAppendRecords ==
    /\ mode = "watch"
    /\ \E b \in NextBytes(evBytes, {"e1", "e2"}) :
          evBytes' = Append(evBytes, b)
    /\ evExists' = TRUE
    /\ UNCHANGED <<events, edges, snaps, tieOrder, response, mode, pc, epos,
                   cursor, durable, snExists, snBytes, spos, processed>>

\* The prefixes a file may be cut back to: nothing, or its first lines.
ShorterFiles(bytes) ==
    {SubSeq(bytes, 1, n) :
        n \in {k \in 0..(Len(bytes) - 1) : k = 0 \/ bytes[k] = Newline}}

\* events.jsonl shrinks: it is truncated, or replaced by a new file that the
\* collector then fills by appending.
ProducerTruncate ==
    /\ mode = "watch" /\ evExists
    /\ evBytes' \in ShorterFiles(evBytes)
    /\ UNCHANGED <<events, edges, snaps, tieOrder, response, mode, pc, epos,
                   cursor, durable, evExists, snExists, snBytes, spos,
                   processed>>

\* snapshots.jsonl shrinks in the same way.
ProducerTruncateSnapshots ==
    /\ mode = "watch" /\ snExists
    /\ snBytes' \in ShorterFiles(snBytes)
    /\ UNCHANGED <<events, edges, snaps, tieOrder, response, mode, pc, epos,
                   cursor, durable, evExists, snExists, evBytes, spos,
                   processed>>

\* A plausible slip: events.jsonl opened without the exists() test, so that
\* a missing file raises FileNotFoundError.
WatchPollEventsUnchecked ==
    /\ mode = "watch" /\ pc = "run"
    /\ IF ~evExists
       THEN Abort /\ UNCHANGED <<epos, processed>>
       ELSE LET lines == SplitLines(SubSeq(evBytes, epos + 1, Len(evBytes)))
                st == ProcessLines([events |-> events, edges |-> edges,
                                    aborted |-> FALSE,
                                    processed |-> processed], lines)
            IN  /\ epos' = Tell(evBytes, epos)
                /\ processed' = st.processed
                /\ IF st.aborted THEN Abort
                   ELSE /\ events' = st.events
                        /\ edges' = st.edges
                        /\ durable' = IF lines # <<>>
                                      THEN View(st.events, st.edges, snaps)
                                      ELSE durable
                        /\ pc' = "snapshots"
                        /\ UNCHANGED snaps
    /\ UNCHANGED <<tieOrder, response, mode, evBytes, cursor, evExists,
                   snExists, snBytes, spos>>

\* watch_and_ingest: the events.jsonl part of one polling cycle.
WatchPollEvents ==
    /\ mode = "watch" /\ pc = "run"
    /\ IF ~evExists
       THEN /\ pc' = "snapshots"
            /\ UNCHANGED <<events, edges, snaps, durable, epos, processed>>
       ELSE LET lines == SplitLines(SubSeq(evBytes, epos + 1, Len(evBytes)))
                st == ProcessLines([events |-> events, edges |-> edges,
                                    aborted |-> FALSE,
                                    processed |-> processed], lines)
            IN  /\ epos' = Tell(evBytes, epos)
                /\ processed' = st.processed
                /\ IF st.aborted THEN Abort
                   ELSE /\ events' = st.events
                        /\ edges' = st.edges
                        /\ durable' = IF lines # <<>>
                                      THEN View(st.events, st.edges, snaps)
                                      ELSE durable
                        /\ pc' = "snapshots"
                        /\ UNCHANGED snaps
    /\ UNCHANGED <<tieOrder, response, mode, evBytes, cursor, evExists,
                   snExists, snBytes, spos>>

\* watch_and_ingest: the snapshots.jsonl part of the cycle, and
\* time.sleep(1).
WatchPollSnapshots ==
    /\ mode = "watch" /\ pc = "snapshots"
    /\ IF ~snExists
       THEN UNCHANGED <<snaps, durable, spos>>
       ELSE LET lines == SplitLines(SubSeq(snBytes, spos + 1, Len(snBytes)))
            IN  /\ spos' = Tell(snBytes, spos)
                /\ snaps' = ProcessSnapshotLines(snaps, lines)
                /\ durable' = IF lines # <<>>
                              THEN View(events, edges, snaps')
                              ELSE durable
    /\ pc' = "run"
    /\ UNCHANGED <<events, edges, tieOrder, response, mode, evBytes, epos,
                   cursor, evExists, snExists, snBytes, processed>>

\* Another process (query.py, api.py) asks Q1 on its own connection: it
\* reads the committed tables.
ReaderCausalChain ==
    /\ mode \in {"batch", "watch"}
    /\ response' = CausalChainResponse(durable.events, durable.edges,
                                       "p1", "default", 0)
    /\ UNCHANGED <<events, edges, snaps, tieOrder>>
    /\ UNCHANGED pipeVars

NextPipeline ==
    \/ IngestEventsLine
    \/ IngestEventsLink
    \/ IngestEventsCommit
    \/ ProducerAppend
    \/ ProducerAppendSnapshots
    \/ WatchPollEvents
    \/ WatchPollSnapshots
    \/ ReaderCausalChain

SpecPipeline == InitPipeline /\ [][NextPipeline]_vars

\* --watch DIR on a directory whose files are rotated or truncated while
\* they are tailed.
InitRotate == InitPipeline /\ mode = "watch"

NextRotate ==
    \/ ProducerAppendRecords
    \/ ProducerAppendSnapshots
    \/ ProducerTruncate
    \/ ProducerTruncateSnapshots
    \/ WatchPollEvents
    \/ WatchPollSnapshots

SpecRotate == InitRotate /\ [][NextRotate]_vars

(* ------------------------------------------------------------------ *)
(* Stored rows                                                         *)
(* ------------------------------------------------------------------ *)

\* The stored event with identifier id.
Stored(id) == events[CHOOSE i \in 1..Len(events) : events[i].id = id]

EdgeSet == BagToSet(edges)

(* ------------------------------------------------------------------ *)
(* C1                                                                  *)
(* ------------------------------------------------------------------ *)

\* C1: every edge with confidence 0.9 has as effect an OOMKill event and as
\* cause a NodeMemoryPressure event of the same node whose instant lies in
\* [effect instant - 300, effect instant].
C1_TimeWindow ==
    \A x \in EdgeSet : x.confidence = "0.9" =>
        /\ EventKeyConflict(events, x.cause_event_id)
        /\ EventKeyConflict(events, x.effect_event_id)
        /\ LET c == Stored(x.cause_event_id)
               f == Stored(x.effect_event_id)
           IN  /\ f.event_type = "OOMKill"
               /\ c.event_type = "NodeMemoryPressure"
               /\ c.node_name = f.node_name
               /\ Instant(c.timestamp) <= Instant(f.timestamp)
               /\ Instant(c.timestamp) >= Instant(f.timestamp) - WindowP001

(* ------------------------------------------------------------------ *)
(* C2                                                                  *)
(* ------------------------------------------------------------------ *)

\* The memory-pressure edges whose effect is the event id.
PressureEdgesOf(id) ==
    {x \in EdgeSet : x.effect_event_id = id /\ x.confidence = "0.9"}

\* C2: after any sequence of ingestions, replays included, no OOMKill event
\* is the effect of more than 3 memory-pressure edges.
C2_CardinalityCap ==
    \A i \in 1..Len(events) :
        events[i].event_type = "OOMKill" =>
            Cardinality(PressureEdgesOf(events[i].id)) <= LimitP001

(* ------------------------------------------------------------------ *)
(* C3, C4, C5                                                          *)
(* ------------------------------------------------------------------ *)

\* C3: ingesting an event record or a snapshot record twice leaves the
\* three stores as ingesting it once does.
C3_Idempotent ==
    /\ \A e \in MainRecords :
          LET once == AfterEvent(events, edges, e)
          IN  AfterEvent(once.events, once.edges, e) = once
    /\ \A s \in SnapshotRecords :
          InsertSnapshot(InsertSnapshot(snaps, s), s) = InsertSnapshot(snaps, s)

\* An OOM kill that is stored with a memory-pressure edge, and a stored
\* snapshot: processing either record again is a second ingestion.
C3_Witness ==
    /\ \E e \in MainRecords :
          /\ Replay(e)
          /\ e.event_type = "OOMKill"
          /\ PressureEdgesOf(e.id) # {}
    /\ \E s \in SnapshotRecords : \E i \in 1..Len(snaps) : snaps[i] = SnapshotRow(s)

\* C4: processing an event record whose id is already stored, whatever its
\* other fields, changes nothing in the event and edge stores.
C4_DuplicateNoOp ==
    \A e \in MainRecords :
        EventKeyConflict(events, e.id) =>
            AfterEvent(events, edges, e) = [events |-> events, edges |-> edges]

\* C5: no two edges for one (cause, effect) pair, and running the linker a
\* second time for the same trigger on the same events table adds no edge
\* and changes no confidence.
C5_EdgeDeterminism ==
    /\ \A x \in EdgeSet : CopiesIn(x, edges) = 1
    /\ \A x, y \in EdgeSet :
          (x.cause_event_id = y.cause_event_id
              /\ x.effect_event_id = y.effect_event_id) => x = y
    /\ \A e \in MainRecords :
          LET once == BuildEdges(events, edges, e)
          IN  BuildEdges(events, once, e) = once

\* Edges of both rules are stored, so a second run of either rule meets the
\* identifiers it derived the first time.
C5_Witness ==
    /\ \E x \in EdgeSet : x.confidence = "0.9"
    /\ \E x \in EdgeSet : x.confidence = "1.0"

(* ------------------------------------------------------------------ *)
(* C8                                                                  *)
(* ------------------------------------------------------------------ *)

RECURSIVE ChainDepth(_)
\* Number of levels of a chain (a sequence of nodes with children).
ChainDepth(chain) ==
    IF chain = <<>> THEN 0
    ELSE LET d == {ChainDepth(chain[k].children) : k \in 1..Len(chain)}
         IN  1 + CHOOSE m \in d : \A n \in d : n <= m

RECURSIVE NodesAtLevel(_, _)
\* The nodes nested `level` levels below the anchor.
NodesAtLevel(chain, level) ==
    IF level = 1 THEN {chain[k] : k \in 1..Len(chain)}
    ELSE UNION {NodesAtLevel(chain[k].children, level - 1) : k \in 1..Len(chain)}

\* C8: whatever the edge store holds, the chain returned by Q1 nests no cause
\* more than 5 levels below the anchor, and a node at level 5 has no children.
C8_DepthBound ==
    /\ ChainDepth(response.chain) <= MaxDepth
    /\ \A n \in NodesAtLevel(response.chain, MaxDepth) : n.children = <<>>

\* The edge store holds a cycle: the returned chain is cut at level 5 at a
\* node that does have recorded causes.
C8_Witness ==
    /\ ChainDepth(response.chain) = MaxDepth
    /\ \E n \in NodesAtLevel(response.chain, MaxDepth) :
          CauseRows(events, edges, n.id) # {}

(* ------------------------------------------------------------------ *)
(* C9                                                                  *)
(* ------------------------------------------------------------------ *)

\* e1: NodeMemoryPressure on n1 at T;  e2: OOMKill on n1 at T + 60 s.
ScenarioE1 == EventRecord(1, "NodeMemoryPressure", "p1", "default", "n1", 86300)
ScenarioE2 == EventRecord(2, "OOMKill", "p1", "default", "n1", 86360)

\* Exactly e1 then e2 are stored.
ScenarioStored == events = <<EventRow(ScenarioE1), EventRow(ScenarioE2)>>

\* The edge store holds exactly the edge e1 -> e2, pattern P001, 0.9.
ScenarioEdges == edges = SetToBag({EdgeRow(1, 2, "0.9")})

RECURSIVE ChildrenAreCauses(_, _, _)
\* chain lists exactly the events that are cause of the node id by some edge,
\* each once, by ascending timestamp, each with its edge's confidence and
\* edge_type; and so do the children of each of its nodes, down to `levels`.
ChildrenAreCauses(chain, id, levels) ==
    IF levels = 0 THEN chain = <<>>
    ELSE
      /\ {chain[k].id : k \in 1..Len(chain)}
            = {x.cause_event_id : x \in {y \in EdgeSet : y.effect_event_id = id}}
      /\ \A k, l \in 1..Len(chain) : k # l => chain[k].id # chain[l].id
      /\ \A k \in 1..Len(chain) - 1 :
            TextLeq(chain[k].timestamp, chain[k + 1].timestamp)
      /\ \A k \in 1..Len(chain) :
            /\ chain[k].timestamp = Stored(chain[k].id).timestamp
            /\ \E x \in EdgeSet :
                  /\ x.cause_event_id = chain[k].id
                  /\ x.effect_event_id = id
                  /\ x.confidence = chain[k].confidence
                  /\ x.edge_type = chain[k].edge_type
            /\ ChildrenAreCauses(chain[k].children, chain[k].id, levels - 1)

\* C9: ingesting e1 then e2 into empty stores creates exactly the edge
\* e1 -> e2 (P001, 0.9); every Q1 answer lists, under each node, exactly that
\* node's causes by ascending timestamp with their edge's annotations; so Q1
\* on e2's pod answers e1 as the sole cause.
C9_LinkAndChain ==
    [][ /\ ScenarioStored' => ScenarioEdges'
        /\ \A id \in {0} \cup Ids :
              QueryCausalChain("p1", "default", id) =>
                 /\ response'.found =>
                       ChildrenAreCauses(response'.chain,
                                         response'.anchor[1].id, MaxDepth)
                 /\ (ScenarioStored /\ id = 0) =>
                       /\ response'.anchor = <<EventRow(ScenarioE2)>>
                       /\ Len(response'.chain) = 1
                       /\ response'.chain[1].id = 1
                       /\ response'.chain[1].confidence = "0.9"
                       /\ response'.chain[1].children = <<>>
      ]_vars

\* The scenario has run and Q1 on e2's pod has been answered.
C9_Witness ==
    /\ ScenarioStored
    /\ response.found
    /\ response.anchor = <<EventRow(ScenarioE2)>>
    /\ Len(response.chain) = 1

\* A Q1 answer with two causes of different times under one node.
C9_WitnessOrder ==
    /\ response.found
    /\ Len(response.chain) >= 2
    /\ response.chain[1].timestamp # response.chain[2].timestamp

(* ------------------------------------------------------------------ *)
(* C10                                                                 *)
(* ------------------------------------------------------------------ *)

\* The stored events of the pod and namespace that are OOMKill,
\* CrashLoopBackOff or ContainerTerminated.
Significant(pod, ns) ==
    {i \in 1..Len(events) :
        /\ events[i].pod_name = pod
        /\ events[i].namespace = ns
        /\ \/ events[i].event_type = "OOMKill"
           \/ events[i].event_type = "CrashLoopBackOff"
           \/ events[i].event_type = "ContainerTerminated"}

\* C10: with no event id given, the anchor is an event of greatest timestamp
\* among the stored OOMKill / CrashLoopBackOff / ContainerTerminated events
\* of the given pod and namespace; when there is none the answer is the
\* empty "no events found" result.
C10_AnchorResolution ==
    [][ \A pl \in Placements :
          QueryCausalChain(pl[1], pl[2], 0) =>
             IF Significant(pl[1], pl[2]) = {}
             THEN /\ ~response'.found
                  /\ response'.anchor = <<>>
                  /\ response'.chain = <<>>
                  /\ response'.message = "no events found"
             ELSE /\ response'.found
                  /\ \E i \in Significant(pl[1], pl[2]) :
                        response'.anchor = <<events[i]>>
                  /\ \A i \in Significant(pl[1], pl[2]) :
                        Instant(events[i].timestamp)
                           <= Instant(response'.anchor[1].timestamp)
      ]_vars

\* Q1 has answered with an anchor although the same pod has a more recent
\* event of another type.
C10_Witness ==
    /\ response.found
    /\ \E i \in 1..Len(events) :
          /\ events[i].pod_name = response.anchor[1].pod_name
          /\ events[i].namespace = response.anchor[1].namespace
          /\ events[i].event_type = "OOMKillEvidence"
          /\ Instant(events[i].timestamp) > Instant(response.anchor[1].timestamp)

\* Q1 has answered "no events found" while the pod has stored events.
C10_WitnessNone ==
    /\ response.query = "causal-chain"
    /\ ~response.found
    /\ \E i \in 1..Len(events) :
          events[i].pod_name = "p1" /\ events[i].namespace = "default"

(* ------------------------------------------------------------------ *)
(* C6, C7                                                              *)
(* ------------------------------------------------------------------ *)

\* The well-formed records whose complete line lies in bytes.
WellFormedIn(bytes) ==
    {SourceRecord(name) : name \in
        {n \in RecordNames :
            \E k \in 1..Len(SplitLines(bytes)) :
                SplitLines(bytes)[k] = LineText(n) \o <<Newline>>}}

\* C6: in batch mode and in tail mode a malformed record (an unparseable
\* line, or a parsed record lacking id) never aborts the batch or the watch
\* loop, and a finished batch has ingested every well-formed record of the
\* source.
C6_ErrorContainment ==
    /\ pc # "aborted"
    /\ (mode = "batch" /\ pc = "done") =>
          \A e \in WellFormedIn(evBytes) : EventKeyConflict(durable.events, e.id)

\* C7: after every polling cycle the tracked offset lies on a line boundary,
\* and once every line has been terminated and read, every well-formed
\* record of the source is stored.
C7_NoPartialRecord ==
    /\ (mode = "watch" /\ pc = "run") =>
          (epos = 0 \/ evBytes[epos] = Newline)
    /\ (mode = "watch" /\ pc = "run" /\ epos = Len(evBytes)) =>
          \A e \in WellFormedIn(evBytes) : EventKeyConflict(events, e.id)

(* ------------------------------------------------------------------ *)
(* C11                                                                 *)
(* ------------------------------------------------------------------ *)

\* The stored snapshots of the object whose namespace is ns or empty and
\* whose instant is at or before the instant t.
Qualifying(object_kind, object_name, ns, t) ==
    {i \in 1..Len(snaps) :
        /\ snaps[i].object_kind = object_kind
        /\ snaps[i].object_name = object_name
        /\ snaps[i].namespace \in {ns, ""}
        /\ Instant(snaps[i].timestamp) <= t}

\* C11: Q3 answers a snapshot of greatest timestamp among the snapshots of
\* the object that are at or before the query time and whose namespace is
\* the requested one or empty, and answers "not found" when there is none.
C11_StateAt ==
    [][ \A ns \in {"default", "kube-system"}, t \in QueryTimes :
          QueryStateAt("Pod", "foo", ns, IsoText(t)) =>
             IF Qualifying("Pod", "foo", ns, t) = {}
             THEN ~response'.found /\ response'.snapshot = <<>>
             ELSE /\ response'.found
                  /\ \E i \in Qualifying("Pod", "foo", ns, t) :
                        response'.snapshot = <<snaps[i]>>
                  /\ \A i \in Qualifying("Pod", "foo", ns, t) :
                        Instant(snaps[i].timestamp)
                           <= Instant(response'.snapshot[1].timestamp)
      ]_vars

\* Q3 has answered the later of two qualifying snapshots, one of which has
\* the empty namespace.
C11_Witness ==
    /\ response.query = "state-at"
    /\ response.found
    /\ \E i, j \in 1..Len(snaps) :
          /\ response.snapshot = <<snaps[j]>>
          /\ snaps[i].object_kind = "Pod" /\ snaps[i].object_name = "foo"
          /\ TextLess(snaps[i].timestamp, snaps[j].timestamp)
          /\ "" \in {snaps[i].namespace, snaps[j].namespace}
          /\ snaps[i].namespace # snaps[j].namespace

\* Q3 has answered "not found" although the object has a snapshot: one that
\* is later than the query time or of another namespace.
C11_WitnessNone ==
    /\ response.query = "state-at"
    /\ ~response.found
    /\ \E i \in 1..Len(snaps) :
          snaps[i].object_kind = "Pod" /\ snaps[i].object_name = "foo"

(* ------------------------------------------------------------------ *)
(* C12                                                                 *)
(* ------------------------------------------------------------------ *)

\* The stored events of the pattern that pass the supplied filters and whose
\* instant is no earlier than `days` days before now.
InLookback(pattern_id, pod_name, namespace, days, now) ==
    {i \in 1..Len(events) :
        /\ events[i].pattern_id = pattern_id
        /\ (pod_name # "" => events[i].pod_name = pod_name)
        /\ (namespace # "" => events[i].namespace = namespace)
        /\ Instant(events[i].timestamp) >= now - days * SecondsPerDay}

\* C12: Q2 answers exactly the stored events of the pattern that pass the
\* supplied filters and are no older than the lookback, each once, by
\* descending timestamp, and count is their number.
C12_PatternHistory ==
    [][ \A pod \in {"", "p1"}, ns \in {"", "default"}, days \in Lookbacks :
          QueryPatternHistory("P001", pod, ns, days, Now) =>
             LET want == InLookback("P001", pod, ns, days, Now)
                 got == response'.events
             IN  /\ {got[k].id : k \in 1..Len(got)} = {events[i].id : i \in want}
                 /\ Len(got) = Cardinality(want)
                 /\ response'.count = Cardinality(want)
                 /\ \A k \in 1..Len(got) - 1 :
                       Instant(got[k].timestamp) >= Instant(got[k + 1].timestamp)
      ]_vars

(* ------------------------------------------------------------------ *)
(* C13                                                                 *)
(* ------------------------------------------------------------------ *)

\* The OOM-evidence edges whose effect is the event id.
EvidenceEdgesOf(id) ==
    {x \in EdgeSet : x.effect_event_id = id /\ x.confidence = "1.0"}

\* C13: every edge with confidence 1.0 has pattern P001 and type direct, as
\* effect an OOMKillEvidence event and as cause an OOMKill event of the same
\* pod and namespace whose instant lies in [effect instant - 90, effect
\* instant]; and no OOMKillEvidence event is the effect of more than one
\* such edge.
C13_EvidenceRule ==
    /\ \A x \in EdgeSet : x.confidence = "1.0" =>
          /\ x.pattern_id = "P001" /\ x.edge_type = "direct"
          /\ EventKeyConflict(events, x.cause_event_id)
          /\ EventKeyConflict(events, x.effect_event_id)
          /\ LET c == Stored(x.cause_event_id)
                 f == Stored(x.effect_event_id)
             IN  /\ f.event_type = "OOMKillEvidence"
                 /\ c.event_type = "OOMKill"
                 /\ c.pod_name = f.pod_name
                 /\ c.namespace = f.namespace
                 /\ Instant(c.timestamp) <= Instant(f.timestamp)
                 /\ Instant(c.timestamp) >= Instant(f.timestamp) - WindowEvidence
    /\ \A i \in 1..Len(events) :
          events[i].event_type = "OOMKillEvidence" =>
              Cardinality(EvidenceEdgesOf(events[i].id)) <= LimitEvidence

(* ------------------------------------------------------------------ *)
(* C14                                                                 *)
(* ------------------------------------------------------------------ *)

\* C14: a step of Q1, Q2, Q3 or the summary, whatever its arguments and
\* whether or not it finds anything, leaves the event, edge and snapshot
\* stores as they are.
C14_PureReads ==
    [][ (\/ \E pod \in {"p1", "p2"} : QueryCausalChain(pod, "default", 0)
         \/ \E days \in Lookbacks : QueryPatternHistory("P001", "", "", days, Now)
         \/ \E t \in QueryTimes : QueryStateAt("Pod", "p1", "default", IsoText(t))
         \/ QuerySummary)
        => /\ events' = events
           /\ edges' = edges
           /\ snaps' = snaps
      ]_vars

\* With all three stores filled, Q2 has been answered with nothing found.
C14_Witness ==
    /\ events # <<>> /\ edges # EmptyBag /\ snaps # <<>>
    /\ response.query = "pattern-history"
    /\ response.count = 0

(* ------------------------------------------------------------------ *)
(* C15                                                                 *)
(* ------------------------------------------------------------------ *)

\* C15: for every edge, both events are stored and the stored timestamp of
\* the cause is not later than the stored timestamp of the effect.
C15_EdgeDirection ==
    \A x \in EdgeSet :
        /\ EventKeyConflict(events, x.cause_event_id)
        /\ EventKeyConflict(events, x.effect_event_id)
        /\ Instant(Stored(x.cause_event_id).timestamp)
              <= Instant(Stored(x.effect_event_id).timestamp)

(* ------------------------------------------------------------------ *)
(* C16                                                                 *)
(* ------------------------------------------------------------------ *)

\* Every row of the table old is a row of the table new, with the same
\* values.
RowsKept(old, new) ==
    \A i \in 1..Len(old) : \E j \in 1..Len(new) : new[j] = old[i]

\* Every edge row of old is an edge row of new, with the same values.
EdgesKept(old, new) ==
    \A x \in BagToSet(old) : CopiesIn(x, new) >= CopiesIn(x, old)

\* C16: in every step of batch ingestion, of a tail-mode cycle or of a
\* query, every event, snapshot and edge of the committed tables stays in
\* them with the same field values; and so does every row of the tables as
\* the ingesting connection sees them, unless the process dies and its open
\* transaction, which no reader has seen, is dropped.
C16_AppendOnly ==
    [][ /\ RowsKept(durable.events, durable'.events)
        /\ RowsKept(durable.snaps, durable'.snaps)
        /\ EdgesKept(durable.edges, durable'.edges)
        /\ pc' # "aborted" =>
              /\ RowsKept(events, events')
              /\ RowsKept(snaps, snaps')
              /\ EdgesKept(edges, edges')
      ]_vars

\* In tail mode a record that reuses the id of a stored event has been
\* processed, an event and an edge are committed, and a query has run.
C16_Witness ==
    /\ mode = "watch"
    /\ \E k, l \in 1..Len(processed) :
          k < l /\ processed[k] = "e1" /\ processed[l] = "e1x"
    /\ durable.edges # EmptyBag
    /\ response.query = "causal-chain"

\* In tail mode an event and a snapshot are committed, and further cycles
\* have run.
C16_WitnessSnapshot ==
    /\ mode = "watch"
    /\ pc = "run"
    /\ durable.events # <<>>
    /\ durable.snaps # <<>>
    /\ epos = Len(evBytes)
    /\ spos = Len(snBytes)

(* ------------------------------------------------------------------ *)
(* C17                                                                 *)
(* ------------------------------------------------------------------ *)

\* The well-formed records among the first k lines of bytes.
RecordsOfLines(bytes, k) ==
    {SourceRecord(name) : name \in
        {n \in RecordNames :
            \E l \in 1..k : SplitLines(bytes)[l] = LineText(n) \o <<Newline>>}}

\* C17: in batch mode, whether the run is going on, has finished or has been
\* aborted, the record of every line the loop has gone past is in the
\* committed tables.
C17_BatchDurability ==
    mode = "batch" =>
        \A e \in RecordsOfLines(evBytes, cursor) :
            EventKeyConflict(durable.events, e.id)

(* ------------------------------------------------------------------ *)
(* C18                                                                 *)
(* ------------------------------------------------------------------ *)

\* Number of complete lines of bytes that carry the record name.
CompleteLinesOf(bytes, name) ==
    Cardinality({k \in 1..Len(SplitLines(bytes)) :
                    SplitLines(bytes)[k] = LineText(name) \o <<Newline>>})

\* Number of times the record name was handed to _insert_event.
TimesProcessed(name) ==
    Cardinality({k \in 1..Len(processed) : processed[k] = name})

\* Number of lines of bytes, terminated or not, whose text is the whole
\* text of the record name.
WholeTextsOf(bytes, name) ==
    Cardinality({k \in 1..Len(SplitLines(bytes)) :
                    Strip(SplitLines(bytes)[k]) = LineText(name)})

\* C18: in tail mode no record is handed to the store more often than the
\* source holds it, and after a polling cycle that has read a source of
\* complete lines to its end, every record of the source has been handed to
\* the store exactly as often as the source holds it.
C18_ExactlyOnce ==
    mode = "watch" =>
        \A name \in RecordNames :
            /\ TimesProcessed(name) <= WholeTextsOf(evBytes, name)
            /\ (/\ pc = "run"
                /\ epos = Len(evBytes)
                /\ (evBytes = <<>> \/ evBytes[Len(evBytes)] = Newline))
               => TimesProcessed(name) = CompleteLinesOf(evBytes, name)

(* ------------------------------------------------------------------ *)
(* C19                                                                 *)
(* ------------------------------------------------------------------ *)

RECURSIVE IngestAll(_, _)
\* The events and causal_edges tables after the records named in names have
\* each been inserted and linked, in order, starting from the tables st.
IngestAll(st, names) ==
    IF names = <<>> THEN st
    ELSE LET after == AfterEvent(st.events, st.edges, SourceRecord(Head(names)))
         IN  IngestAll(after, Tail(names))

\* C19: the tables a reader sees are always the tables as they are after a
\* whole number of ingestion steps: for some k, the first k records handed
\* to the store, each with all the edges the linker derived for it and
\* nothing else.
C19_AtomicVisibility ==
    mode \in {"batch", "watch"} =>
        \E k \in 0..Len(processed) :
            [events |-> durable.events, edges |-> durable.edges]
               = IngestAll([events |-> <<>>, edges |-> EmptyBag],
                           SubSeq(processed, 1, k))

\* A reader has been answered an event together with its cause while the
\* pipeline is in tail mode.
C19_Witness ==
    /\ mode = "watch"
    /\ response.found
    /\ response.chain # <<>>

\* In batch mode an event has been inserted and its edge has not been
\* derived yet: the ingesting connection's view is ahead of the reader's.
C19_WitnessInFlight ==
    /\ mode = "batch"
    /\ pc = "link"
    /\ \E i \in 1..Len(events) :
          /\ events[i].event_type = "OOMKill"
          /\ ~EventKeyConflict(durable.events, events[i].id)
          /\ PressureEdgesOf(events[i].id) = {}
          /\ P001Where(events, events[i]) # {}

(* ------------------------------------------------------------------ *)
(* C20                                                                 *)
(* ------------------------------------------------------------------ *)

\* The file consists of complete lines, none of which lacks the key "id".
CleanFile(bytes) ==
    /\ bytes = <<>> \/ bytes[Len(bytes)] = Newline
    /\ \A k \in 1..Len(SplitLines(bytes)) :
          Strip(SplitLines(bytes)[k]) # LineText("nokey")

\* C20: a polling cycle that finds a source file absent leaves that source's
\* offset at 0 and all stores as they are, does not end the loop, and goes
\* on to the other source, whose records it ingests; and the first cycle
\* that finds the file reads it from offset 0 and ingests its records.
C20_AbsentSource ==
    [][ /\ (WatchPollEvents /\ ~evExists) =>
              /\ epos = 0 /\ epos' = 0
              /\ events' = events /\ edges' = edges /\ snaps' = snaps
              /\ durable' = durable
              /\ pc' = "snapshots"
        /\ (WatchPollSnapshots /\ ~snExists) =>
              /\ spos = 0 /\ spos' = 0
              /\ events' = events /\ edges' = edges /\ snaps' = snaps
              /\ durable' = durable
              /\ pc' = "run"
        /\ (WatchPollSnapshots /\ snExists /\ spos = 0 /\ CleanFile(snBytes)) =>
              /\ spos' = Len(snBytes)
              /\ snBytes # <<>> => SnapshotKeyConflict(durable'.snaps, 1)
        /\ (WatchPollEvents /\ evExists /\ epos = 0 /\ CleanFile(evBytes)) =>
              /\ epos' = Len(evBytes)
              /\ pc' = "snapshots"
              /\ \A e \in WellFormedIn(evBytes) :
                    EventKeyConflict(durable'.events, e.id)
      ]_vars

\* With events.jsonl still absent, a cycle has ingested the snapshot of
\* snapshots.jsonl and the loop goes on.
C20_Witness ==
    /\ mode = "watch"
    /\ ~evExists
    /\ pc = "run"
    /\ durable.snaps # <<>>

\* events.jsonl appeared after cycles that found it absent, and its records
\* have been ingested.
C20_WitnessAppeared ==
    /\ mode = "watch"
    /\ evExists
    /\ spos > 0
    /\ durable.events # <<>>
    /\ durable.snaps # <<>>

(* ------------------------------------------------------------------ *)
(* C21                                                                 *)
(* ------------------------------------------------------------------ *)

\* C21: processing an event record adds only edges whose effect is the
\* record's id and removes none; a step that changes the edge store is the
\* processing of an OOMKill or OOMKillEvidence record, so a record of any
\* other type leaves it as it is (a pressure event ingested after an OOM
\* kill is not linked to it by its own ingestion).
C21_EffectTriggered ==
    [][ /\ EdgesKept(edges, edges')
        /\ edges' # edges =>
              \A e \in ChainRecords :
                  IngestEvent(e) =>
                     /\ e.event_type \in {"OOMKill", "OOMKillEvidence"}
                     /\ \A x \in BagToSet(edges') :
                           CopiesIn(x, edges') > CopiesIn(x, edges)
                              => x.effect_event_id = e.id
      ]_vars

\* An OOM kill is stored, a pressure event of its node that passes the
\* rule's WHERE clause was stored after it, and no edge links them.
C21_Witness ==
    \E i, j \in 1..Len(events) :
        /\ i < j
        /\ events[i].event_type = "OOMKill"
        /\ events[j].event_type = "NodeMemoryPressure"
        /\ j \in P001Where(events, events[i])
        /\ ~EdgeKeyConflict(edges, EdgeId(events[j].id, events[i].id))

(* ------------------------------------------------------------------ *)
(* C22                                                                 *)
(* ------------------------------------------------------------------ *)

\* The edge is of one of the two kinds the linker builds: pressure -> kill
\* with confidence 0.9, or kill -> evidence with confidence 1.0.
TypedEdge(x) ==
    /\ EventKeyConflict(events, x.cause_event_id)
    /\ EventKeyConflict(events, x.effect_event_id)
    /\ LET c == Stored(x.cause_event_id).event_type
           f == Stored(x.effect_event_id).event_type
       IN  \/ c = "NodeMemoryPressure" /\ f = "OOMKill" /\ x.confidence = "0.9"
           \/ c = "OOMKill" /\ f = "OOMKillEvidence" /\ x.confidence = "1.0"

RECURSIVE CausesWithin(_, _)
\* The ids reached from the ids S by following at most n edges from effect
\* to cause, at least one.
CausesWithin(S, n) ==
    IF n = 0 THEN {}
    ELSE LET direct == {x.cause_event_id :
                          x \in {y \in EdgeSet : y.effect_event_id \in S}}
         IN  direct \cup CausesWithin(direct, n - 1)

RECURSIVE ChainComplete(_, _, _, _)
\* Every node of the chain below `id` lists all the recorded causes of its
\* event, children included.
ChainComplete(evs, eds, chain, id) ==
    /\ Len(chain) = Cardinality(CauseRows(evs, eds, id))
    /\ \A k \in 1..Len(chain) :
          ChainComplete(evs, eds, chain[k].children, chain[k].id)

\* C22: with ids that are never reused for another record, every edge goes
\* from a NodeMemoryPressure event to an OOMKill event with confidence 0.9 or
\* from an OOMKill event to an OOMKillEvidence event with confidence 1.0; no
\* event is among its own causes, however far back; every Q1 chain nests at
\* most 2 levels, and its answer lists every recorded cause of every node.
C22_TypedAcyclic ==
    /\ [](/\ \A x \in EdgeSet : TypedEdge(x)
          /\ \A id \in Ids : id \notin CausesWithin({id}, MaxId)
          /\ ChainDepth(response.chain) <= 2)
    /\ [][ \A id \in Ids \cup {0} :
             QueryCausalChain("p1", "default", id) /\ response'.found =>
                ChainComplete(events, edges, response'.chain,
                              response'.anchor[1].id)
       ]_vars

\* Q1 anchored at an OOMKillEvidence event answered with a chain of two
\* levels: the OOM kill, and below it the node's memory pressure.
C22_Witness ==
    /\ response.found
    /\ response.anchor[1].event_type = "OOMKillEvidence"
    /\ ChainDepth(response.chain) = 2
    /\ \E x \in EdgeSet : x.confidence = "0.9"
    /\ \E x \in EdgeSet : x.confidence = "1.0"

(* ------------------------------------------------------------------ *)
(* C23                                                                 *)
(* ------------------------------------------------------------------ *)

\* The record's text stands in the file as a line that begins beyond the
\* offset.
LineBeyond(bytes, pos, name) ==
    \E a \in (pos + 1)..(Len(bytes) - 1) :
        /\ SubSeq(bytes, a, a + 1) = LineText(name)
        /\ (a = pos + 1 \/ bytes[a - 1] = Newline)

\* The record's text stands in the file wholly below the offset.
LineBelow(bytes, pos, name) ==
    \E a \in 1..(pos - 1) :
        a + 1 <= Len(bytes) /\ SubSeq(bytes, a, a + 1) = LineText(name)

\* C23: the offsets of both tailed files never decrease; a polling cycle
\* that finds a file no longer than its offset ingests nothing from it,
\* commits nothing, keeps the offset and goes on; and every record a cycle
\* hands to the store is a line of the file that begins beyond the offset
\* the cycle started from.
C23_OffsetMonotone ==
    [][ /\ epos' >= epos
        /\ spos' >= spos
        /\ WatchPollEvents /\ evExists /\ Len(evBytes) <= epos =>
              /\ UNCHANGED <<events, edges, snaps, durable, processed, epos>>
              /\ pc' = "snapshots"
        /\ WatchPollSnapshots /\ snExists /\ Len(snBytes) <= spos =>
              /\ UNCHANGED <<events, edges, snaps, durable, processed, spos>>
              /\ pc' = "run"
        /\ WatchPollEvents =>
              \A k \in (Len(processed) + 1)..Len(processed') :
                  LineBeyond(evBytes, epos, processed'[k])
        /\ WatchPollSnapshots /\ snaps' # snaps =>
              LineBeyond(snBytes, spos, "s1")
      ]_vars

\* events.jsonl was replaced by a shorter file that has since grown beyond
\* the offset: the cycle has read it to its end, the record e2 that stands
\* below the old offset was not handed to the store, and a record beyond it
\* was.
C23_Witness ==
    /\ pc = "snapshots"
    /\ epos = Len(evBytes)
    /\ LineBelow(evBytes, 3, "e2")
    /\ \A k \in 1..Len(processed) : processed[k] # "e2"
    /\ Len(processed) = 2
    /\ LineBeyond(evBytes, 3, processed[2])

\* A polling cycle has just found events.jsonl shorter than its offset.
C23_WitnessShrunk ==
    /\ pc = "snapshots"
    /\ evExists
    /\ Len(evBytes) < epos
    /\ processed # <<>>

====
